---- MODULE Spec2Model ----
(***************************************************************************)
(* Channel registry of blink-back (src/server.ts): the register handler    *)
(* POST /api/blink/create, the describe handler GET /api/:channelName and  *)
(* the file-backed record store readData / writeData.                      *)
(*                                                                         *)
(* Strings are tuples of one-character strings.  A request is served by a  *)
(* slot; every await of a handler is a point where other slots may run.    *)
(***************************************************************************)
EXTENDS Integers, Sequences, FiniteSets, TLC

VARIABLES
    file,       \* data.json: [state, blinks]
    req,        \* per slot: the request being served and its handler's locals
    now,        \* the clock read by new Date()
    lastResp,   \* the slot that answered most recently (0: none yet)
    blockhash,  \* the ledger's latest blockhash
    client      \* the mobile client: the state of FormScreen and the navigator

vars == <<file, req, now, lastResp, blockhash, client>>

----------------------------------------------------------------------------
(* Bounds of the model *)

NumReq == 2

Slots == 1..NumReq

----------------------------------------------------------------------------
(* Strings *)

Absent == <<"undefined">>

UpperChars == <<"A","B","C","D","E","F","G","H","I","J","K","L","M",
                "N","O","P","Q","R","S","T","U","V","W","X","Y","Z">>

LowerChars == <<"a","b","c","d","e","f","g","h","i","j","k","l","m",
                "n","o","p","q","r","s","t","u","v","w","x","y","z">>

Digits == {"0","1","2","3","4","5","6","7","8","9"}

Range(s) == {s[i] : i \in DOMAIN s}

\* the characters matched by \s
IsWhitespace(c) == c \in {" ", "\t", "\n", "\r"}

ToLowerChar(c) ==
    IF \E i \in DOMAIN UpperChars : UpperChars[i] = c
    THEN LowerChars[CHOOSE i \in DOMAIN UpperChars : UpperChars[i] = c]
    ELSE c

\* String.prototype.toLowerCase
ToLowerCase(s) == [i \in DOMAIN s |-> ToLowerChar(s[i])]

\* the first index at or after i that holds no whitespace (Len(s) + 1: none)
RECURSIVE SkipWhitespace(_, _)
SkipWhitespace(s, i) ==
    IF i > Len(s) \/ ~IsWhitespace(s[i]) THEN i ELSE SkipWhitespace(s, i + 1)

\* the last index at or before i that holds no whitespace (0: none)
RECURSIVE SkipWhitespaceBack(_, _)
SkipWhitespaceBack(s, i) ==
    IF i < 1 \/ ~IsWhitespace(s[i]) THEN i ELSE SkipWhitespaceBack(s, i - 1)

\* String.prototype.trim
Trim(s) == SubSeq(s, SkipWhitespace(s, 1), SkipWhitespaceBack(s, Len(s)))

\* String.prototype.replace(/\s+/g, '-'): every maximal run of whitespace
\* becomes one hyphen
RECURSIVE ReplaceWhitespaceRuns(_)
ReplaceWhitespaceRuns(s) ==
    IF s = <<>> THEN <<>>
    ELSE IF IsWhitespace(Head(s))
         THEN IF Len(s) > 1 /\ IsWhitespace(s[2])
              THEN ReplaceWhitespaceRuns(Tail(s))
              ELSE <<"-">> \o ReplaceWhitespaceRuns(Tail(s))
         ELSE <<Head(s)>> \o ReplaceWhitespaceRuns(Tail(s))

\* what a string method or a regex sees of a value: String(undefined)
StringOf(v) == IF v = Absent THEN <<"u","n","d","e","f","i","n","e","d">> ELSE v

Repeat(c, n) == [i \in 1..n |-> c]

----------------------------------------------------------------------------
(* URLs and ledger addresses: the library calls the validators make.        *)
(* A URL string is the tuple of its scheme, host and path parts; a string   *)
(* with no scheme part is one that new URL() cannot parse.                  *)

Schemes == {"http://", "https://", "ftp://", "tg://"}

\* new URL(url) does not throw
UrlParses(url) == url # Absent /\ Len(url) >= 2 /\ url[1] \in Schemes /\ url[2] # ""

\* URL.hostname: the parser lowercases the host
ToLowerHost(h) ==
    CASE h = "T.ME" -> "t.me"
      [] h = "Telegram.Me" -> "telegram.me"
      [] OTHER -> h

Hostname(url) == ToLowerHost(url[2])

\* the base58 strings that decode to PUBLIC_KEY_LENGTH bytes, with their bytes
KnownKeys ==
    { [text |-> <<"A","k","e","y">>, bytes |-> <<10, 20>>],
      [text |-> <<"B","k","e","y">>, bytes |-> <<11, 21>>],
      [text |-> <<"P","a","y","r">>, bytes |-> <<12, 22>>] }

\* new PublicKey(str) does not throw
PublicKeyParses(str) == \E k \in KnownKeys : k.text = str

\* new PublicKey(str): the decoded bytes
PublicKeyNew(str) == (CHOOSE k \in KnownKeys : k.text = str).bytes

\* PublicKey.toString(): the base58 encoding of the bytes
PublicKeyToString(bytes) == (CHOOSE k \in KnownKeys : k.bytes = bytes).text

----------------------------------------------------------------------------
(* Validators *)

NameMinLen == 3
NameMaxLen == 50
DescMinLen == 10
DescMaxLen == 1000

\* the fee of a request: a number of millionths of a SOL (micro) plus a
\* number of tenths of a lamport below one millionth (sub, 0..9999)
SubPerLamport == 10
Num(micro) == [kind |-> "number", micro |-> micro, sub |-> 0]
NumSub(micro, sub) == [kind |-> "number", micro |-> micro, sub |-> sub]
NotANumber == [kind |-> "NaN", micro |-> 0, sub |-> 0]
NoFee == [kind |-> "undefined", micro |-> 0, sub |-> 0]
\* a fee sent as a string: a numeral, a numeral followed by other
\* characters, a text that starts with no numeral
Numeral(micro) == [kind |-> "numeral", micro |-> micro, sub |-> 0]
NumeralJunk(micro) == [kind |-> "numeral-junk", micro |-> micro, sub |-> 0]
TextFee == [kind |-> "text", micro |-> 0, sub |-> 0]
\* the empty string, which the comparison operators convert to 0
EmptyFee == [kind |-> "empty", micro |-> 0, sub |-> 0]

\* the kinds that the operators <=, > and * convert to a finite number
NumericKinds == {"number", "numeral", "empty"}

FeeMaxMicro == 1000 * 1000000

IsNameChar(c) ==
    \/ c \in Range(UpperChars) \cup Range(LowerChars) \cup Digits
    \/ c \in {"-", "_"}
    \/ IsWhitespace(c)

validateChannelName(name) ==
    LET str == StringOf(name)
    IN  /\ Len(str) >= NameMinLen
        /\ Len(str) <= NameMaxLen
        /\ \A i \in DOMAIN str : IsNameChar(str[i])

isValidUrl(url) ==
    /\ UrlParses(url)
    /\ url[1] \in {"http://", "https://"}

isValidTelegramLink(url) ==
    /\ UrlParses(url)
    /\ Hostname(url) \in {"t.me", "telegram.me"}

\* description.trim().length < 10 || description.length > 1000
DescriptionRejected(description) ==
    \/ Len(Trim(description)) < DescMinLen
    \/ Len(description) > DescMaxLen

\* FeeRejected with the bounds the wrong way: fee < 0 || fee >= 1000
FeeRejectedOffByOne(fee) ==
    /\ fee.kind \in NumericKinds
    /\ (fee.micro < 0 \/ fee.micro >= FeeMaxMicro)

\* fee <= 0 || fee > 1000: a comparison with NaN or undefined is false
FeeRejected(fee) ==
    /\ fee.kind \in NumericKinds
    /\ \/ fee.micro < 0
       \/ fee.micro = 0 /\ fee.sub = 0
       \/ fee.micro > FeeMaxMicro
       \/ fee.micro = FeeMaxMicro /\ fee.sub > 0

\* a JavaScript string used as a condition
Truthy(str) == str # Absent /\ str # <<>>

ErrName == "Invalid channel name. Use only letters, numbers, spaces, hyphens, and underscores (3-50 characters)."
ErrDescription == "Description must be between 10 and 1000 characters"
ErrFee == "Fee must be between 0 and 1000"
ErrKeyRequired == "Public key is required"
ErrCoverImage == "Invalid cover image URL"
ErrTelegram == "Invalid Telegram link. Must be a t.me or telegram.me URL"
ErrKeyFormat == "Invalid public key format"
ErrDuplicate == "Channel name already exists"
ErrSaving == "Error saving data"
ErrInternal == "Internal server error"
ErrNotFound == "Channel not found"
Thrown == "TypeError"
NoError == ""

\* lines 102-130 of the register handler, in the order the code runs them:
\* the error message of the first failing check, Thrown when a method is
\* called on undefined, NoError when the request passes
ValidationOutcome(b) ==
    IF ~validateChannelName(b.channelName) THEN ErrName
    ELSE IF b.description = Absent THEN Thrown
    ELSE IF DescriptionRejected(b.description) THEN ErrDescription
    ELSE IF FeeRejected(b.fee) THEN ErrFee
    ELSE IF b.publicKey = Absent THEN Thrown
    ELSE IF Trim(b.publicKey) = <<>> THEN ErrKeyRequired
    ELSE IF Truthy(b.coverImage) /\ ~isValidUrl(b.coverImage) THEN ErrCoverImage
    ELSE IF ~isValidTelegramLink(b.telegramLink) THEN ErrTelegram
    ELSE IF ~PublicKeyParses(b.publicKey) THEN ErrKeyFormat
    ELSE IF b.channelName = Absent THEN Thrown
    ELSE NoError

----------------------------------------------------------------------------
(* Routes and records *)

\* RouteOf with /\s/g for /\s+/g: one hyphen for each whitespace character
RouteOfEachSpace(channelName) ==
    <<"/api/">> \o [i \in DOMAIN channelName |->
                      IF IsWhitespace(channelName[i]) THEN "-"
                      ELSE ToLowerChar(channelName[i])]

\* `/api/${channelName.toLowerCase().replace(/\s+/g, '-')}`
RouteOf(channelName) == <<"/api/">> \o ReplaceWhitespaceRuns(ToLowerCase(channelName))

DefaultCoverImage == <<"https://", "example.com", "/default-icon.png">>

BaseUrl == "https://blink-back.onrender.com"

\* NewBlink with the route taken from the name as typed
NewBlinkRawRoute(b, createdAt) ==
    [ route |-> <<"/api/">> \o b.channelName,
      channelName |-> b.channelName,
      description |-> b.description,
      fee |-> b.fee,
      coverImage |-> IF Truthy(b.coverImage) THEN b.coverImage ELSE DefaultCoverImage,
      publicKey |-> PublicKeyToString(PublicKeyNew(b.publicKey)),
      createdAt |-> createdAt,
      telegramLink |-> b.telegramLink,
      link |-> <<BaseUrl>> \o RouteOf(b.channelName) ]

\* NewBlink without the default: the cover image is stored as it was sent
NewBlinkNoDefault(b, createdAt) ==
    [ route |-> RouteOf(b.channelName),
      channelName |-> b.channelName,
      description |-> b.description,
      fee |-> b.fee,
      coverImage |-> b.coverImage,
      publicKey |-> PublicKeyToString(PublicKeyNew(b.publicKey)),
      createdAt |-> createdAt,
      telegramLink |-> b.telegramLink,
      link |-> <<BaseUrl>> \o RouteOf(b.channelName) ]

\* the BlinkData the register handler builds (lines 147-157)
NewBlink(b, createdAt) ==
    [ route |-> RouteOf(b.channelName),
      channelName |-> b.channelName,
      description |-> b.description,
      fee |-> b.fee,
      coverImage |-> IF Truthy(b.coverImage) THEN b.coverImage ELSE DefaultCoverImage,
      publicKey |-> PublicKeyToString(PublicKeyNew(b.publicKey)),
      createdAt |-> createdAt,
      telegramLink |-> b.telegramLink,
      link |-> <<BaseUrl>> \o RouteOf(b.channelName) ]

\* HasRoute comparing the display name, not the route
HasRouteByName(blinks, route) == \E i \in DOMAIN blinks : blinks[i].channelName = route

\* data.blinks.some(b => b.route === route)
HasRoute(blinks, route) == \E i \in DOMAIN blinks : blinks[i].route = route

\* FindRoute comparing the display name, not the route
FindRouteByName(blinks, route) ==
    IF \E i \in DOMAIN blinks : blinks[i].channelName = route
    THEN <<blinks[CHOOSE i \in DOMAIN blinks : blinks[i].channelName = route]>>
    ELSE <<>>

\* data.blinks.find(b => b.route === route): the first match, as a sequence
\* of at most one record
FindRoute(blinks, route) ==
    IF HasRoute(blinks, route)
    THEN <<blinks[CHOOSE i \in DOMAIN blinks :
                    /\ blinks[i].route = route
                    /\ \A j \in DOMAIN blinks : blinks[j].route = route => i <= j]>>
    ELSE <<>>

----------------------------------------------------------------------------
(* The record store *)

\* data.json: missing until the first write, ok with the collection it
\* holds, torn while a write has truncated it and not yet written the text
FileMissing == [state |-> "missing", blinks |-> <<>>]
FileTorn == [state |-> "torn", blinks |-> <<>>]
FileOk(blinks) == [state |-> "ok", blinks |-> blinks]

\* JSON.stringify of a number: NaN is written as null; a string or a finite
\* number is read back as written, an undefined field is read back undefined
JsonValue(fee) ==
    IF fee.kind = "NaN" THEN [kind |-> "null", micro |-> 0, sub |-> 0] ELSE fee

\* JSON.stringify(data, null, 2) as JSON.parse reads it back
JsonStringify(blinks) ==
    [i \in DOMAIN blinks |-> [blinks[i] EXCEPT !.fee = JsonValue(blinks[i].fee)]]

\* readData: a missing file and a text JSON.parse rejects both give no records
readData(f) == IF f.state = "ok" THEN f.blinks ELSE <<>>

----------------------------------------------------------------------------
(* Requests *)

Body(name, description, fee, publicKey, coverImage, telegramLink) ==
    [ channelName |-> name, description |-> description, fee |-> fee,
      publicKey |-> publicKey, coverImage |-> coverImage,
      telegramLink |-> telegramLink ]

NoBody == Body(Absent, Absent, NoFee, Absent, Absent, Absent)

\* a slot no request has reached yet
Idle ==
    [ kind |-> "none", pc |-> "idle", body |-> NoBody, data |-> <<>>,
      status |-> 0, error |-> NoError, reply |-> <<>>, after |-> 0,
      account |-> Absent, balance |-> -1 ]

InFlight(s) == req[s].pc \notin {"idle", "done"}

\* res.status(status).json({ error }) and the return that follows it
Respond(s, status, error, reply) ==
    /\ req' = [req EXCEPT ![s].pc = "done", ![s].status = status,
                          ![s].error = error, ![s].reply = reply]
    /\ lastResp' = s

\* POST /api/blink/create up to its first await (lines 98-135): the
\* validators, then the call of readData
RegisterHandle(s, b) ==
    /\ LET outcome == ValidationOutcome(b)
           r == [req[s] EXCEPT !.kind = "register", !.body = b, !.after = lastResp]
       IN  IF outcome = NoError
           THEN /\ req' = [req EXCEPT ![s] = [r EXCEPT !.pc = "reading"]]
                /\ UNCHANGED lastResp
           ELSE /\ req' = [req EXCEPT ![s] =
                      [r EXCEPT !.pc = "done",
                                !.status = IF outcome = Thrown THEN 500 ELSE 400,
                                !.error = IF outcome = Thrown THEN ErrInternal ELSE outcome]]
                /\ lastResp' = s
    /\ UNCHANGED <<file, now, blockhash, client>>

\* a request with the body b arrives at a free slot
RegisterStart(s, b) ==
    /\ req[s].pc = "idle"
    /\ RegisterHandle(s, b)

\* the request the mobile client sent arrives
RegisterArrive(s) ==
    /\ req[s].pc = "sent"
    /\ RegisterHandle(s, req[s].body)

\* readData resolves and the handler runs to its next await (lines 135-162):
\* the duplicate check, newBlink, the push and the call of writeData
RegisterLoad(s) ==
    /\ req[s].kind = "register"
    /\ req[s].pc = "reading"
    /\ LET blinks == readData(file)
           route == RouteOf(req[s].body.channelName)
       IN  IF HasRoute(blinks, route)
           THEN /\ Respond(s, 400, ErrDuplicate, <<>>)
                /\ UNCHANGED now
           ELSE /\ req' = [req EXCEPT ![s].pc = "opening",
                              ![s].data = Append(blinks, NewBlink(req[s].body, now))]
                /\ now' = now + 1
                /\ UNCHANGED lastResp
    /\ UNCHANGED <<file, blockhash, client>>

\* writeData, first half: fs.writeFile opens data.json for writing, which
\* creates or truncates it
WriteOpen(s) ==
    /\ req[s].pc = "opening"
    /\ file' = FileTorn
    /\ req' = [req EXCEPT ![s].pc = "writing"]
    /\ UNCHANGED <<now, lastResp, blockhash, client>>

\* the open fails (no permission, no descriptor left): writeData rejects and
\* the handler answers from its catch (lines 163-166)
WriteOpenFail(s) ==
    /\ req[s].pc = "opening"
    /\ Respond(s, 500, ErrSaving, <<>>)
    /\ UNCHANGED <<file, now, blockhash, client>>

\* writeData, second half: the text is written and the handler answers 201
\* (lines 168-172)
WriteFlush(s) ==
    /\ req[s].pc = "writing"
    /\ file' = FileOk(JsonStringify(req[s].data))
    /\ Respond(s, 201, NoError,
               <<[route |-> RouteOf(req[s].body.channelName),
                  channelName |-> req[s].data[Len(req[s].data)].channelName]>>)
    /\ UNCHANGED <<now, blockhash, client>>

\* the write fails after the open (disk full, I/O error): writeData rejects
\* and the handler answers from its catch; the file stays as the open left it
WriteFlushFail(s) ==
    /\ req[s].pc = "writing"
    /\ Respond(s, 500, ErrSaving, <<>>)
    /\ UNCHANGED <<file, now, blockhash, client>>

\* GET /api/:channelName up to its await (lines 179-184)
ResolveStart(s, name) ==
    /\ req[s].pc = "idle"
    /\ req' = [req EXCEPT ![s].kind = "resolve", ![s].pc = "reading",
                          ![s].body = [NoBody EXCEPT !.channelName = name],
                          ![s].after = lastResp]
    /\ UNCHANGED <<file, now, lastResp, blockhash, client>>

\* Payload with the route for the title
PayloadTitleRoute(blink) ==
    [ icon |-> blink.coverImage, label |-> "Join our Telegram channel",
      title |-> Tail(blink.route), description |-> blink.description ]

\* the ActionGetResponse of a record (lines 191-196)
Payload(blink) ==
    [ icon |-> blink.coverImage, label |-> "Join our Telegram channel",
      title |-> blink.channelName, description |-> blink.description ]

\* ResolveLoad that writes back the collection it loaded
ResolveLoadRewriting(s) ==
    /\ req[s].kind = "resolve"
    /\ req[s].pc = "reading"
    /\ LET blink == FindRoute(readData(file), RouteOf(req[s].body.channelName))
       IN  IF blink = <<>>
           THEN Respond(s, 404, ErrNotFound, <<>>)
           ELSE /\ req' = [req EXCEPT ![s].pc = "done", ![s].status = 200,
                              ![s].data = blink,
                              ![s].reply = <<Payload(blink[1])>>]
                /\ lastResp' = s
    /\ file' = FileOk(readData(file))
    /\ UNCHANGED <<now, blockhash, client>>

\* readData resolves and the handler answers (lines 184-199); data keeps the
\* record the handler found
ResolveLoad(s) ==
    /\ req[s].kind = "resolve"
    /\ req[s].pc = "reading"
    /\ LET blink == FindRoute(readData(file), RouteOf(req[s].body.channelName))
       IN  IF blink = <<>>
           THEN Respond(s, 404, ErrNotFound, <<>>)
           ELSE /\ req' = [req EXCEPT ![s].pc = "done", ![s].status = 200,
                              ![s].data = blink,
                              ![s].reply = <<Payload(blink[1])>>]
                /\ lastResp' = s
    /\ UNCHANGED <<file, now, blockhash, client>>

\* Summary with the owner address left in
SummaryWithKey(blink) ==
    [ channelName |-> blink.channelName, description |-> blink.description,
      fee |-> blink.fee, route |-> blink.route, createdAt |-> blink.createdAt,
      publicKey |-> blink.publicKey ]

\* the projection of a record in the listing (lines 277-283)
Summary(blink) ==
    [ channelName |-> blink.channelName, description |-> blink.description,
      fee |-> blink.fee, route |-> blink.route, createdAt |-> blink.createdAt ]

\* GET /api/channels/list up to its await (lines 274-276)
ListStart(s) ==
    /\ req[s].pc = "idle"
    /\ req' = [req EXCEPT ![s].kind = "list", ![s].pc = "reading",
                          ![s].after = lastResp]
    /\ UNCHANGED <<file, now, lastResp, blockhash, client>>

\* readData resolves and the handler answers data.blinks.map(...)
\* (lines 276-283)
ListLoad(s) ==
    /\ req[s].kind = "list"
    /\ req[s].pc = "reading"
    /\ LET blinks == readData(file)
       IN  /\ req' = [req EXCEPT ![s].pc = "done", ![s].status = 200,
                         ![s].reply = [i \in DOMAIN blinks |-> Summary(blinks[i])]]
           /\ lastResp' = s
    /\ UNCHANGED <<file, now, blockhash, client>>

----------------------------------------------------------------------------
(* The transaction builder: POST /api/:channelName *)

LAMPORTS_PER_SOL == 1000000000

ErrAccountRequired == "Account is required"
ErrAccount == "Invalid account public key"
ErrInsufficient == "Insufficient balance"
ErrCheckingBalance == "Error checking balance"
\* error.message of the Error a ledger call or the SDK throws
LedgerMessage == "failed to get recent blockhash: fetch failed"
SdkMessage == "The number NaN cannot be converted to a BigInt because it is not an integer"
SdkMessageFraction == "The number 0.1 cannot be converted to a BigInt because it is not an integer"

\* blink.fee * LAMPORTS_PER_SOL (line 236): a JavaScript number, here its
\* whole lamports and the tenths of a lamport beyond them
Lamports(fee) ==
    [ whole |-> fee.micro * (LAMPORTS_PER_SOL \div 1000000) + fee.sub \div SubPerLamport,
      tenths |-> fee.sub % SubPerLamport ]

\* Insufficient with <= for <
InsufficientOrEqual(balance, requiredAmount) == balance <= requiredAmount.whole

\* balance < requiredAmount (line 237)
Insufficient(balance, requiredAmount) ==
    \/ balance < requiredAmount.whole
    \/ balance = requiredAmount.whole /\ requiredAmount.tenths > 0

\* Transfer with the two keys exchanged
TransferSwapped(fromPubkey, toPubkey, lamports) ==
    [fromPubkey |-> toPubkey, toPubkey |-> fromPubkey, lamports |-> lamports]

\* SystemProgram.transfer({ fromPubkey, toPubkey, lamports }) (lines 244-248);
\* lamports is the integer the instruction data holds
Transfer(fromPubkey, toPubkey, lamports) ==
    [fromPubkey |-> fromPubkey, toPubkey |-> toPubkey, lamports |-> lamports]

\* the blockhash of an earlier answer when there is one
CachedBlockhash ==
    IF \E t \in Slots : req[t].kind = "pay" /\ req[t].status = 200
    THEN req[CHOOSE t \in Slots : req[t].kind = "pay" /\ req[t].status = 200]
            .reply[1].transaction.recentBlockhash
    ELSE blockhash

\* (await connection.getLatestBlockhash()).blockhash (line 252)
LatestBlockhash == blockhash

\* new Transaction({ feePayer, recentBlockhash }).add(instruction) and the
\* message of the response (lines 250-261)
PostResponse(account, blink, recent) ==
    [ transaction |->
        [ feePayer |-> PublicKeyNew(account),
          recentBlockhash |-> recent,
          instruction |-> Transfer(PublicKeyNew(account),
                                   PublicKeyNew(blink.publicKey),
                                   Lamports(blink.fee).whole) ],
      link |-> blink.link,
      telegramLink |-> blink.telegramLink ]

\* AccountError without the parse of the account
AccountErrorIfMissing(account) ==
    IF ~Truthy(account) THEN ErrAccountRequired ELSE NoError

\* the error of the account checks (lines 212-221), NoError when they pass
AccountError(account) ==
    IF ~Truthy(account) THEN ErrAccountRequired
    ELSE IF ~PublicKeyParses(account) THEN ErrAccount
    ELSE NoError

\* the handler up to its first await (lines 207-223): the account checks,
\* then the call of readData
PayStart(s, name, account) ==
    /\ req[s].pc = "idle"
    /\ LET r == [req[s] EXCEPT !.kind = "pay", !.account = account,
                               !.body = [NoBody EXCEPT !.channelName = name],
                               !.after = lastResp]
       IN  IF AccountError(account) = NoError
           THEN /\ req' = [req EXCEPT ![s] = [r EXCEPT !.pc = "reading"]]
                /\ UNCHANGED lastResp
           ELSE /\ req' = [req EXCEPT ![s] =
                      [r EXCEPT !.pc = "done",
                                !.status = 400,
                                !.error = AccountError(account)]]
                /\ lastResp' = s
    /\ UNCHANGED <<file, now, blockhash, client>>

\* readData resolves; the handler finds the record and calls getBalance
\* (lines 223-235)
PayLoad(s) ==
    /\ req[s].kind = "pay"
    /\ req[s].pc = "reading"
    /\ LET blink == FindRoute(readData(file), RouteOf(req[s].body.channelName))
       IN  IF blink = <<>>
           THEN Respond(s, 404, ErrNotFound, <<>>)
           ELSE /\ req' = [req EXCEPT ![s].pc = "balance", ![s].data = blink]
                /\ UNCHANGED lastResp
    /\ UNCHANGED <<file, now, blockhash, client>>

\* getBalance resolves with the payer's balance; the handler compares it,
\* builds the transfer instruction and calls getLatestBlockhash
\* (lines 235-252)
PayBalance(s, balance) ==
    /\ req[s].pc = "balance"
    /\ LET blink == req[s].data[1]
           numeric == blink.fee.kind \in NumericKinds
           requiredAmount == Lamports(blink.fee)
       IN  IF numeric /\ Insufficient(balance, requiredAmount)
           THEN /\ req' = [req EXCEPT ![s].pc = "done", ![s].status = 400,
                                      ![s].error = ErrInsufficient,
                                      ![s].balance = balance]
                /\ lastResp' = s
           ELSE IF ~numeric \/ requiredAmount.tenths # 0
           THEN /\ req' = [req EXCEPT ![s].pc = "done", ![s].status = 400,
                                      ![s].error = IF numeric THEN SdkMessageFraction
                                                            ELSE SdkMessage,
                                      ![s].balance = balance]
                /\ lastResp' = s
           ELSE /\ req' = [req EXCEPT ![s].pc = "blockhash", ![s].balance = balance]
                /\ UNCHANGED lastResp
    /\ UNCHANGED <<file, now, blockhash, client>>

\* getBalance rejects: the inner catch answers (lines 240-242)
PayBalanceFail(s) ==
    /\ req[s].pc = "balance"
    /\ Respond(s, 500, ErrCheckingBalance, <<>>)
    /\ UNCHANGED <<file, now, blockhash, client>>

\* getLatestBlockhash resolves: the transaction is built and answered
\* (lines 250-265)
PayBlockhash(s) ==
    /\ req[s].pc = "blockhash"
    /\ Respond(s, 200, NoError,
               <<PostResponse(req[s].account, req[s].data[1], LatestBlockhash)>>)
    /\ UNCHANGED <<file, now, blockhash, client>>

\* getLatestBlockhash rejects: the Error reaches the outer catch, which
\* answers 400 with its message (lines 266-269)
PayBlockhashFail(s) ==
    /\ req[s].pc = "blockhash"
    /\ Respond(s, 400, LedgerMessage, <<>>)
    /\ UNCHANGED <<file, now, blockhash, client>>

----------------------------------------------------------------------------
(* Inputs *)

NameMyC == <<"M","y"," ","C">>
NameMyCSpaced == <<"m","y"," "," ","c">>
NameMyCHyphen == <<"m","y","-","c">>
NameAbc == <<"a","b","c">>
NameShort == <<"a","b">>
NameSlash == <<"a","/","b","c">>

DescOk == Repeat("d", DescMinLen)

KeyA == <<"A","k","e","y">>
KeyB == <<"B","k","e","y">>
KeyBlank == <<" "," ">>
KeyBad == <<"n","o","k","e","y">>

CoverOk == <<"https://", "img.example", "/c.png">>
CoverFtp == <<"ftp://", "img.example", "/c.png">>
CoverBad == <<"not a url">>

LinkOk == <<"https://", "t.me", "/testshow">>
LinkUpper == <<"https://", "T.ME", "/testshow">>
LinkOther == <<"https://", "example.com", "/t.me">>
LinkBad == <<"t.me/testshow">>

FeeHalf == Num(500000)

\* the requests of the concurrent and the sequential specification
Names == {NameMyC, NameMyCSpaced, NameAbc, NameShort}

Bodies ==
    { Body(n, DescOk, FeeHalf, k, Absent, LinkOk) : n \in Names, k \in {KeyA, KeyB} }

ResolveNames == {NameMyC, NameMyCHyphen, NameAbc}

\* registrations that send a cover image, and one that sends it empty
CoverBodies ==
    { Body(NameAbc, DescOk, FeeHalf, KeyA, CoverOk, LinkOk),
      Body(NameMyC, DescOk, FeeHalf, KeyB, <<>>, LinkOk) }

----------------------------------------------------------------------------
(* The mobile client: src/app/screens/FormScreen.js and SuccessScreen.js *)

FormData(channelName, description, fee, publicKey, coverImage, link) ==
    [ channelName |-> channelName, description |-> description, fee |-> fee,
      publicKey |-> publicKey, coverImage |-> coverImage, link |-> link ]

\* useState of FormScreen (lines 17-27) and the navigator on the Form screen
ClientInit ==
    [ formData |-> FormData(<<>>, <<>>, EmptyFee, <<>>, <<>>, <<>>),
      errors |-> {},
      isLoading |-> FALSE,
      pending |-> {},
      sent |-> {},
      screen |-> "Form",
      params |-> <<>>,
      alert |-> NoError ]

\* parseFloat(formData.fee) is a number: the text starts with a numeral
ParseFloatKinds == {"numeral", "numeral-junk"}

\* /^https?:\/\/.+/.test(coverImage): the scheme and one character at least
CoverPattern(url) ==
    /\ Len(url) >= 2
    /\ url[1] \in {"http://", "https://"}
    /\ \E i \in 2..Len(url) : url[i] # ""

\* the parts of the URLs of the model in which t.me or telegram.me occurs
TelegramParts == {"t.me", "telegram.me", "/t.me", "t.me/testshow"}

\* /(t\.me|telegram\.me)/.test(link): the text occurs anywhere in the link
LinkPattern(url) == \E i \in DOMAIN url : url[i] \in TelegramParts

\* validateForm (lines 29-66): newErrors, as the set of its keys
validateForm(formData) ==
    { field \in {"channelName", "description", "fee", "publicKey", "coverImage", "link"} :
        CASE field = "channelName" ->
                 \/ Trim(formData.channelName) = <<>>
                 \/ ~validateChannelName(formData.channelName)
          [] field = "description" ->
                 \/ Trim(formData.description) = <<>>
                 \/ DescriptionRejected(formData.description)
          [] field = "fee" ->
                 \/ formData.fee.kind \notin ParseFloatKinds
                 \/ formData.fee.micro <= 0
                 \/ formData.fee.micro > FeeMaxMicro
          [] field = "publicKey" -> Trim(formData.publicKey) = <<>>
          [] field = "coverImage" ->
                 Truthy(formData.coverImage) /\ ~CoverPattern(formData.coverImage)
          [] field = "link" ->
                 \/ Trim(formData.link) = <<>>
                 \/ ~LinkPattern(formData.link) }

\* JSON.stringify(formData) as the register handler destructures it (line
\* 100 of server.ts): the body has a link and no telegramLink
SubmittedBody(formData) ==
    Body(formData.channelName, formData.description, formData.fee,
         formData.publicKey, formData.coverImage, Absent)

\* response.ok with every status below 500
ResponseOkBelow500(status) == status >= 200 /\ status <= 499

\* response.ok
ResponseOk(status) == status >= 200 /\ status <= 299

\* a field of the JSON of a response, undefined when it has none
DataField(reply, field) == IF reply = <<>> THEN Absent ELSE reply[1][field]

NetworkMessage == "Network request failed"

\* the press of the submit button, which is disabled while isLoading (lines
\* 204-208), with the form the user filled in: handleSubmit up to its await
\* of fetch (lines 82-97); the render that disables the button follows in
\* the same event
handleSubmit(s, formData) ==
    /\ client.screen = "Form"
    /\ ~client.isLoading
    /\ req[s].pc = "idle"
    /\ LET newErrors == validateForm(formData)
       IN  IF newErrors # {}
           THEN /\ client' = [client EXCEPT !.formData = formData, !.errors = newErrors]
                /\ UNCHANGED req
           ELSE /\ client' = [client EXCEPT !.formData = formData, !.errors = {},
                                            !.isLoading = TRUE,
                                            !.pending = @ \cup {s},
                                            !.sent = @ \cup {s}]
                /\ req' = [req EXCEPT ![s].pc = "sent",
                                      ![s].body = SubmittedBody(formData)]
    /\ UNCHANGED <<file, now, lastResp, blockhash>>

\* fetch and response.json() resolve: handleSubmit from line 99 to its end
handleResponse(s) ==
    /\ s \in client.pending
    /\ req[s].pc = "done"
    /\ client' =
         IF ResponseOk(req[s].status)
         THEN [client EXCEPT !.screen = "Success",
                             !.params = <<[channelName |-> DataField(req[s].reply, "channelName"),
                                           route |-> DataField(req[s].reply, "route")]>>,
                             !.isLoading = FALSE,
                             !.pending = @ \ {s}]
         ELSE [client EXCEPT !.alert = req[s].error,
                             !.isLoading = FALSE,
                             !.pending = @ \ {s}]
    /\ UNCHANGED <<file, req, now, lastResp, blockhash>>

\* fetch rejects (no connection, timeout): the catch and the finally of
\* handleSubmit (lines 109-113); the request may still be served
fetchFails(s) ==
    /\ s \in client.pending
    /\ client' = [client EXCEPT !.alert = NetworkMessage,
                                !.isLoading = FALSE,
                                !.pending = @ \ {s}]
    /\ UNCHANGED <<file, req, now, lastResp, blockhash>>

\* handleCreateAnother of SuccessScreen (lines 40-42)
handleCreateAnother ==
    /\ client.screen = "Success"
    /\ client' = [client EXCEPT !.screen = "Form"]
    /\ UNCHANGED <<file, req, now, lastResp, blockhash>>

\* the server of the URL the client posts to, seen from the client: it
\* answers the request with one of these responses
Answers(b) ==
    { [status |-> 201, error |-> NoError,
       reply |-> <<[route |-> RouteOf(b.channelName), channelName |-> b.channelName]>>],
      [status |-> 400, error |-> ErrTelegram, reply |-> <<>>],
      [status |-> 500, error |-> ErrInternal, reply |-> <<>>] }

Answer(s, response) ==
    /\ req[s].pc = "sent"
    /\ req' = [req EXCEPT ![s].kind = "register", ![s].pc = "done",
                          ![s].status = response.status,
                          ![s].error = response.error,
                          ![s].reply = response.reply]
    /\ UNCHANGED <<file, now, lastResp, blockhash, client>>

FeeText == Numeral(500000)

\* the forms the user fills in
Forms ==
    { FormData(NameMyC, DescOk, FeeText, KeyA, <<>>, LinkOk),
      FormData(NameMyC, DescOk, FeeText, KeyA, CoverOk, LinkOther),
      FormData(NameMyC, DescOk, NumeralJunk(500000), KeyA, <<>>, LinkBad),
      FormData(NameAbc, DescOk, FeeText, KeyBad, <<>>, LinkOk),
      FormData(NameMyC, DescOk, FeeText, KeyA, CoverFtp, LinkOk),
      FormData(NameShort, DescOk, TextFee, <<>>, <<>>, LinkUpper) }

----------------------------------------------------------------------------
(* Specifications *)

Init ==
    /\ file = FileMissing
    /\ req = [s \in Slots |-> Idle]
    /\ now = 1
    /\ lastResp = 0
    /\ blockhash = 1
    /\ client = ClientInit

Step(s) ==
    \/ RegisterLoad(s)
    \/ WriteOpen(s)
    \/ WriteOpenFail(s)
    \/ WriteFlush(s)
    \/ WriteFlushFail(s)
    \/ ResolveLoad(s)

\* requests arrive at any time: the handlers interleave at their awaits
Next ==
    \E s \in Slots :
        \/ \E b \in Bodies : RegisterStart(s, b)
        \/ \E n \in ResolveNames : ResolveStart(s, n)
        \/ Step(s)

Spec == Init /\ [][Next]_vars

\* a request arrives only when no other is being served
Quiet == \A s \in Slots : ~InFlight(s)

NextSeq ==
    \E s \in Slots :
        \/ Quiet /\ \E b \in Bodies \cup CoverBodies : RegisterStart(s, b)
        \/ Quiet /\ \E n \in ResolveNames : ResolveStart(s, n)
        \/ Step(s)

SpecSeq == Init /\ [][NextSeq]_vars

----------------------------------------------------------------------------
(* One register request over the whole range of each field *)

WideNames ==
    { NameMyC, NameAbc, NameShort, NameSlash, Absent,
      Repeat("a", NameMaxLen), Repeat("a", NameMaxLen + 1) }

WideDescriptions ==
    { Absent,
      Repeat("d", DescMinLen - 1),
      Repeat("d", DescMinLen),
      <<" ", " ">> \o Repeat("d", DescMinLen - 1) \o <<" ">>,
      <<"\n">> \o Repeat("d", DescMinLen) \o <<" ">>,
      Repeat("d", DescMaxLen),
      Repeat("d", DescMaxLen + 1),
      <<" ">> \o Repeat("d", DescMaxLen) }

WideFees ==
    { Num(-1), Num(0), Num(1), FeeHalf, Num(FeeMaxMicro), Num(FeeMaxMicro + 10000),
      NotANumber, NoFee }

WideKeys == {KeyA, KeyBlank, KeyBad, Absent}

WideCovers == {Absent, <<>>, CoverOk, CoverFtp, CoverBad}

WideLinks == {LinkOk, LinkUpper, LinkOther, LinkBad, Absent}

WideBodies ==
    { Body(n, d, f, k, c, l) :
        n \in WideNames, d \in WideDescriptions, f \in WideFees,
        k \in WideKeys, c \in WideCovers, l \in WideLinks }

\* a record an earlier run of the server registered
SeedBlink == NewBlink(Body(NameAbc, DescOk, FeeHalf, KeyB, Absent, LinkOk), 0)

InitVal ==
    /\ file \in {FileMissing, FileOk(<<SeedBlink>>)}
    /\ req = [s \in Slots |-> Idle]
    /\ now = 1
    /\ lastResp = 0
    /\ blockhash = 1
    /\ client = ClientInit

NextVal ==
    \/ req[1].pc = "idle" /\ \E b \in WideBodies : RegisterStart(1, b)
    \/ RegisterLoad(1)
    \/ WriteOpen(1)
    \/ WriteOpenFail(1)
    \/ WriteFlush(1)
    \/ WriteFlushFail(1)

SpecVal == InitVal /\ [][NextVal]_vars

----------------------------------------------------------------------------
(* Registration, listing and payment requests against a ledger *)

MaxBlockhash == 2

KeyPayer == <<"P","a","y","r">>

FeeOne == Num(1000000)

ApiBodies ==
    { Body(NameMyC, DescOk, FeeOne, KeyA, CoverOk, LinkOk),
      Body(NameMyC, DescOk, NoFee, KeyA, CoverOk, LinkOk),
      Body(NameShort, DescOk, FeeOne, KeyA, CoverOk, LinkOk) }

PayNames == {NameMyC, NameAbc, NameShort}

Accounts == {KeyPayer, KeyBad, Absent}

\* the balances getBalance may answer, around the two fees in the store
Balances ==
    { Lamports(FeeHalf).whole - 1, Lamports(FeeHalf).whole,
      Lamports(FeeOne).whole - 1, Lamports(FeeOne).whole }

\* the ledger produces a block: the latest blockhash changes
LedgerAdvance ==
    /\ blockhash < MaxBlockhash
    /\ blockhash' = blockhash + 1
    /\ UNCHANGED <<file, req, now, lastResp, client>>

InitApi ==
    /\ file = FileOk(<<SeedBlink>>)
    /\ req = [s \in Slots |-> Idle]
    /\ now = 1
    /\ lastResp = 0
    /\ blockhash = 1
    /\ client = ClientInit

NextApi ==
    \/ \E s \in Slots :
        \/ req[s].pc = "idle" /\ \E b \in ApiBodies : RegisterStart(s, b)
        \/ ListStart(s)
        \/ req[s].pc = "idle" /\ \E n \in PayNames, a \in Accounts : PayStart(s, n, a)
        \/ RegisterLoad(s)
        \/ WriteOpen(s)
        \/ WriteOpenFail(s)
        \/ WriteFlush(s)
        \/ WriteFlushFail(s)
        \/ ListLoad(s)
        \/ PayLoad(s)
        \/ req[s].pc = "balance" /\ \E bal \in Balances : PayBalance(s, bal)
        \/ PayBalanceFail(s)
        \/ PayBlockhash(s)
        \/ PayBlockhashFail(s)
    \/ LedgerAdvance

SpecApi == InitApi /\ [][NextApi]_vars

----------------------------------------------------------------------------
(* The four operations together *)

\* 0.0000000001 SOL: a tenth of a lamport
TinyFee == NumSub(0, 1)

AllBodies ==
    { Body(NameMyC, DescOk, FeeOne, KeyA, CoverOk, LinkOk),
      Body(NameMyC, DescOk, TinyFee, KeyA, CoverOk, LinkOk),
      Body(NameShort, DescOk, FeeOne, KeyA, CoverOk, LinkOk) }

AllNames == {NameMyC, NameAbc}

AllAccounts == {KeyPayer, Absent}

AllBalances == {0, 1, Lamports(FeeOne).whole}

InitAll ==
    /\ file = FileOk(<<SeedBlink>>)
    /\ req = [s \in Slots |-> Idle]
    /\ now = 1
    /\ lastResp = 0
    /\ blockhash = 1
    /\ client = ClientInit

NextAll ==
    \E s \in Slots :
        \/ req[s].pc = "idle" /\ \E b \in AllBodies : RegisterStart(s, b)
        \/ \E n \in AllNames : ResolveStart(s, n)
        \/ ListStart(s)
        \/ \E n \in AllNames, account \in AllAccounts : PayStart(s, n, account)
        \/ RegisterLoad(s)
        \/ WriteOpen(s)
        \/ WriteOpenFail(s)
        \/ WriteFlush(s)
        \/ WriteFlushFail(s)
        \/ ResolveLoad(s)
        \/ ListLoad(s)
        \/ PayLoad(s)
        \/ \E balance \in AllBalances : PayBalance(s, balance)
        \/ PayBalanceFail(s)
        \/ PayBlockhash(s)
        \/ PayBlockhashFail(s)

SpecAll == InitAll /\ [][NextAll]_vars

----------------------------------------------------------------------------
(* The mobile client and the server *)

\* a caller of the API other than the mobile client
DirectBodies == { Body(NameMyC, DescOk, FeeOne, KeyA, CoverOk, LinkOk) }

InitClient ==
    /\ file = FileOk(<<SeedBlink>>)
    /\ req = [s \in Slots |-> Idle]
    /\ now = 1
    /\ lastResp = 0
    /\ blockhash = 1
    /\ client = ClientInit

NextClient ==
    \E s \in Slots :
        \/ \E formData \in Forms : handleSubmit(s, formData)
        \/ RegisterArrive(s)
        \/ \E b \in DirectBodies : RegisterStart(s, b)
        \/ RegisterLoad(s)
        \/ WriteOpen(s)
        \/ WriteOpenFail(s)
        \/ WriteFlush(s)
        \/ WriteFlushFail(s)
        \/ handleResponse(s)
        \/ fetchFails(s)

SpecClient == InitClient /\ [][NextClient]_vars

\* the mobile client against a server that may answer anything
NextForm ==
    \/ \E s \in Slots :
        \/ \E formData \in Forms : handleSubmit(s, formData)
        \/ \E response \in Answers(req[s].body) : Answer(s, response)
        \/ handleResponse(s)
        \/ fetchFails(s)
    \/ handleCreateAnother

SpecForm == InitClient /\ [][NextForm]_vars

----------------------------------------------------------------------------
(* Properties *)

Registers == {s \in Slots : req[s].kind = "register"}
Resolves == {s \in Slots : req[s].kind = "resolve"}
Done(s) == req[s].pc = "done"
Created(s) == s \in Registers /\ Done(s) /\ req[s].status = 201

\* the resolve request g was issued right after the register request r
\* answered 201, for the name r registered
ResolvesRightAfter(g, r) ==
    /\ g \in Resolves
    /\ Done(g)
    /\ req[g].after = r
    /\ Created(r)
    /\ req[g].body.channelName = req[r].body.channelName

\* C1: a resolve of the registered channelName issued immediately after the
\* 201 response of a register request finds a record whose channelName, fee
\* and publicKey are the registered ones.
C1_RegisterThenResolve ==
    \A g \in Slots, r \in Slots :
        ResolvesRightAfter(g, r) =>
            /\ req[g].status = 200
            /\ Len(req[g].data) = 1
            /\ req[g].data[1].channelName = req[r].body.channelName
            /\ req[g].data[1].fee = req[r].body.fee
            /\ req[g].data[1].publicKey = req[r].body.publicKey

C1_Witness ==
    \E g \in Slots, r \in Slots :
        /\ ResolvesRightAfter(g, r)
        /\ req[g].status = 200
        /\ req[r].body.channelName = NameMyC

\* C2: in every state of the persisted store no two records have the same
\* route.
C2_UniqueRoutes ==
    \A i \in DOMAIN file.blinks, j \in DOMAIN file.blinks :
        file.blinks[i].route = file.blinks[j].route => i = j

\* every request of the run registered a channel and the store holds them
C2_Witness ==
    /\ Len(file.blinks) >= 2
    /\ \A s \in Slots : Created(s)

\* C3: two register requests with distinct routes that both answered 201
\* are both in the store once both have finished.
C3_NoLostUpdate ==
    \A a \in Slots, b \in Slots :
        ( /\ Created(a)
          /\ Created(b)
          /\ RouteOf(req[a].body.channelName) # RouteOf(req[b].body.channelName) )
        => /\ HasRoute(readData(file), RouteOf(req[a].body.channelName))
           /\ HasRoute(readData(file), RouteOf(req[b].body.channelName))

\* C4: of two register requests with valid inputs whose names derive the
\* same route, exactly one answers 201 and the other is rejected as a
\* duplicate.
C4_OneSuccessOneDuplicate ==
    \A a \in Slots, b \in Slots :
        ( /\ a # b
          /\ a \in Registers /\ Done(a)
          /\ b \in Registers /\ Done(b)
          /\ req[a].error \notin {ErrSaving} /\ req[b].error \notin {ErrSaving}
          /\ ValidationOutcome(req[a].body) = NoError
          /\ ValidationOutcome(req[b].body) = NoError
          /\ RouteOf(req[a].body.channelName) = RouteOf(req[b].body.channelName) )
        => \/ req[a].status = 201 /\ req[b].status = 400 /\ req[b].error = ErrDuplicate
           \/ req[b].status = 201 /\ req[a].status = 400 /\ req[a].error = ErrDuplicate

\* two names that differ only in letter case or in the length of their
\* whitespace runs
RECURSIVE SameUpToCaseAndSpace(_, _)
SameUpToCaseAndSpace(a, b) ==
    IF a = <<>> \/ b = <<>> THEN a = <<>> /\ b = <<>>
    ELSE IF IsWhitespace(Head(a)) \/ IsWhitespace(Head(b))
         THEN /\ IsWhitespace(Head(a))
              /\ IsWhitespace(Head(b))
              /\ SameUpToCaseAndSpace(SubSeq(a, SkipWhitespace(a, 1), Len(a)),
                                      SubSeq(b, SkipWhitespace(b, 1), Len(b)))
         ELSE /\ ToLowerChar(Head(a)) = ToLowerChar(Head(b))
              /\ SameUpToCaseAndSpace(Tail(a), Tail(b))

StoredAlike(blinks, name) ==
    \E i \in DOMAIN blinks : SameUpToCaseAndSpace(blinks[i].channelName, name)

\* C5: a register request whose name differs from the name of a stored
\* channel only in letter case or in the length of whitespace runs is
\* rejected with the duplicate-channel error when it loads the store, and the
\* store is left unchanged.
C5_AlikeNameRejected ==
    [][ \A s \in Slots :
          ( /\ s \in Registers
            /\ req[s].pc = "reading"
            /\ req'[s].pc # "reading"
            /\ StoredAlike(readData(file), req[s].body.channelName) )
          => /\ req'[s].pc = "done"
             /\ req'[s].status = 400
             /\ req'[s].error = ErrDuplicate
             /\ file' = file ]_vars

C5_Witness ==
    \E s \in Slots :
        /\ s \in Registers
        /\ req[s].error = ErrDuplicate
        /\ file.state = "ok"
        /\ \E i \in DOMAIN file.blinks :
              /\ file.blinks[i].channelName # req[s].body.channelName
              /\ SameUpToCaseAndSpace(file.blinks[i].channelName, req[s].body.channelName)

\* the validators of a registration: the name pattern, the trimmed length of
\* the description, a numeric fee in (0, 1000], a non-empty address that
\* parses, a well-formed cover image when one is given, a contact link on an
\* allow-listed host
NameValid(b) == b.channelName # Absent /\ validateChannelName(b.channelName)
DescriptionValid(b) ==
    /\ b.description # Absent
    /\ Len(Trim(b.description)) >= DescMinLen
    /\ Len(Trim(b.description)) <= DescMaxLen
FeeValid(b) == b.fee.kind = "number" /\ b.fee.micro > 0 /\ b.fee.micro <= FeeMaxMicro
AddressValid(b) ==
    b.publicKey # Absent /\ Trim(b.publicKey) # <<>> /\ PublicKeyParses(b.publicKey)
CoverValid(b) == Truthy(b.coverImage) => isValidUrl(b.coverImage)
ContactValid(b) == isValidTelegramLink(b.telegramLink)

ViolatesValidator(b) ==
    ~( /\ NameValid(b) /\ DescriptionValid(b) /\ FeeValid(b)
       /\ AddressValid(b) /\ CoverValid(b) /\ ContactValid(b) )

\* C6: a register request that violates a validator never reaches the write
\* of the record store and never answers 201.
C6_RejectedWithoutWrite ==
    \A s \in Registers :
        ViolatesValidator(req[s].body) =>
            /\ req[s].pc \notin {"opening", "writing"}
            /\ req[s].status # 201

\* every field of the body is present and of its declared type
WellTyped(b) ==
    /\ b.channelName # Absent
    /\ b.description # Absent
    /\ b.fee.kind = "number"
    /\ b.publicKey # Absent
    /\ b.telegramLink # Absent

\* the error of the first failing check in the documented order: name,
\* description, fee, address, cover image, contact link
DocumentedFirstError(b) ==
    IF ~validateChannelName(b.channelName) THEN {ErrName}
    ELSE IF DescriptionRejected(b.description) THEN {ErrDescription}
    ELSE IF FeeRejected(b.fee) THEN {ErrFee}
    ELSE IF ~AddressValid(b) THEN {ErrKeyRequired, ErrKeyFormat}
    ELSE IF ~CoverValid(b) THEN {ErrCoverImage}
    ELSE IF ~ContactValid(b) THEN {ErrTelegram}
    ELSE {}

\* C7: a register request with several invalid fields is answered with the
\* error of the first failing check in the order name, description, fee,
\* address, cover image, contact link.
C7_DocumentedPrecedence ==
    \A s \in Registers :
        (WellTyped(req[s].body) /\ DocumentedFirstError(req[s].body) # {}) =>
            /\ Done(s)
            /\ req[s].status = 400
            /\ req[s].error \in DocumentedFirstError(req[s].body)

\* the request reaches the fee check: its name and description pass
ReachesFeeCheck(b) ==
    /\ validateChannelName(b.channelName)
    /\ b.description # Absent
    /\ ~DescriptionRejected(b.description)

\* C8: for a numeric fee the register handler answers the fee error exactly
\* when the fee is not in (0, 1000]; 0.000001 and 1000 pass, 0 and 1000.01
\* do not.
C8_FeeBounds ==
    \A s \in Registers :
        (req[s].body.fee.kind = "number" /\ ReachesFeeCheck(req[s].body)) =>
            ( (Done(s) /\ req[s].status = 400 /\ req[s].error = ErrFee)
              <=> ~(req[s].body.fee.micro > 0 /\ req[s].body.fee.micro <= FeeMaxMicro) )

\* a request with the fee 1000 answered 201 and its record is in the store
C8_Witness ==
    \E s \in Slots :
        /\ Created(s)
        /\ req[s].body.fee = Num(FeeMaxMicro)
        /\ file.blinks[Len(file.blinks)].fee = Num(FeeMaxMicro)

\* C9: the register handler answers the description error exactly when the
\* trimmed length of the description is outside [10, 1000].
C9_TrimmedLengthDecides ==
    \A s \in Registers :
        (validateChannelName(req[s].body.channelName) /\ req[s].body.description # Absent) =>
            ( (Done(s) /\ req[s].status = 400 /\ req[s].error = ErrDescription)
              <=> ~( /\ Len(Trim(req[s].body.description)) >= DescMinLen
                     /\ Len(Trim(req[s].body.description)) <= DescMaxLen ) )

\* the collection a register request loaded: what it pushed its record onto
Loaded(s) == SubSeq(req[s].data, 1, Len(req[s].data) - 1)

\* C10: when the save of a registration fails the request answers the
\* storage error and a load of the store gives the collection the request
\* loaded.
C10_FailedSaveLeavesStore ==
    \A s \in Registers :
        (Done(s) /\ req[s].error = ErrSaving) =>
            /\ req[s].status = 500
            /\ readData(file) = Loaded(s)

\* the step in which the handler of s gets the result of readData
Loads(s) == req[s].pc = "reading" /\ req'[s].pc # "reading"

\* C11: a load of a file that was written but cannot be parsed is surfaced
\* to the caller as a server error and is never treated as an empty
\* collection.
C11_ReadFailureSurfaced ==
    [][ \A s \in Slots :
          (Loads(s) /\ file.state = "torn") =>
              /\ req'[s].pc = "done"
              /\ req'[s].status = 500 ]_vars

\* C12: a load that runs while another request is inside writeData observes
\* a complete collection, the one before the save or the one it writes.
C12_SaveIsAtomic ==
    [][ \A s \in Slots :
          (Loads(s) /\ \E t \in Slots \ {s} : req[t].pc = "writing") =>
              file.state \in {"missing", "ok"} ]_vars

\* the record a register request that answered 201 stored
StoredBy(s) == JsonStringify(req[s].data)[Len(req[s].data)]

\* C13: once a registration has answered 201, its record is in the store,
\* unchanged, in every later state.
C13_RecordsStay ==
    \A s \in Slots :
        Created(s) => \E i \in DOMAIN readData(file) : readData(file)[i] = StoredBy(s)

\* C14: resolve answers 404 exactly when the store it loaded holds no record
\* whose route is the route derived from the requested name; otherwise it
\* answers with the data of such a record.
C14_NotFoundExactly ==
    [][ \A s \in Resolves :
          Loads(s) =>
              LET blinks == readData(file)
                  route == RouteOf(req[s].body.channelName)
                  matches == {i \in DOMAIN blinks : blinks[i].route = route}
              IN  /\ req'[s].pc = "done"
                  /\ req'[s].status = 404 <=> matches = {}
                  /\ matches # {} =>
                        /\ req'[s].status = 200
                        /\ \E i \in matches :
                              /\ req'[s].data = <<blinks[i]>>
                              /\ req'[s].reply[1].title = blinks[i].channelName
                              /\ req'[s].reply[1].description = blinks[i].description
                              /\ req'[s].reply[1].icon = blinks[i].coverImage ]_vars

\* a resolve found a record under a name other than the registered one
C14_Witness ==
    \E g \in Resolves :
        /\ Done(g)
        /\ req[g].status = 200
        /\ req[g].data[1].channelName # req[g].body.channelName

\* the last segment of a route: what follows /api/
LastSegment(route) == Tail(route)

\* the resolve request g was issued right after the register request r
\* answered 201, for the last segment of the route r returned
ResolvesReturnedRoute(g, r) ==
    /\ g \in Resolves
    /\ Done(g)
    /\ req[g].after = r
    /\ Created(r)
    /\ req[g].body.channelName = LastSegment(req[r].reply[1].route)

\* C20: the last segment of the route a registration returned, used as the
\* name of a describe request, derives the same route again and returns
\* metadata whose title is the registered channelName.
C20_ReturnedRouteResolves ==
    \A g \in Slots, r \in Slots :
        ResolvesReturnedRoute(g, r) =>
            /\ RouteOf(req[g].body.channelName) = req[r].reply[1].route
            /\ req[g].status = 200
            /\ req[g].reply[1].title = req[r].body.channelName

C20_Witness ==
    \E g \in Slots, r \in Slots :
        /\ ResolvesReturnedRoute(g, r)
        /\ req[g].status = 200
        /\ req[r].body.channelName = NameMyC

Lists == {s \in Slots : req[s].kind = "list"}
Pays == {s \in Slots : req[s].kind = "pay"}
Built(s) == s \in Pays /\ Done(s) /\ req[s].status = 200

\* C15: list answers one summary per record of the store it loaded, in
\* store order, each holding channelName, description, fee, route and
\* createdAt of its record and nothing else; no summary holds the publicKey.
C15_ListingHidesOwner ==
    [][ \A s \in Lists :
          Loads(s) =>
              LET blinks == readData(file)
                  summaries == req'[s].reply
              IN  /\ req'[s].status = 200
                  /\ DOMAIN summaries = DOMAIN blinks
                  /\ \A i \in DOMAIN blinks :
                        /\ DOMAIN summaries[i] =
                             {"channelName", "description", "fee", "route", "createdAt"}
                        /\ summaries[i].channelName = blinks[i].channelName
                        /\ summaries[i].description = blinks[i].description
                        /\ summaries[i].fee = blinks[i].fee
                        /\ summaries[i].route = blinks[i].route
                        /\ summaries[i].createdAt = blinks[i].createdAt ]_vars

\* a listing of two records, the older first
C15_Witness ==
    \E s \in Lists :
        /\ Done(s)
        /\ Len(req[s].reply) = 2
        /\ req[s].reply[1].createdAt < req[s].reply[2].createdAt

\* C16: every transaction buildPayment returns has the caller's account as
\* fee payer and as source of the transfer, the record's publicKey as
\* recipient, and the record's fee times LAMPORTS_PER_SOL as amount.
C16_TransactionWellFormed ==
    \A s \in Slots :
        Built(s) =>
            LET tx == req[s].reply[1].transaction
                blink == req[s].data[1]
                payer == CHOOSE k \in KnownKeys : k.text = req[s].account
                owner == CHOOSE k \in KnownKeys : k.text = blink.publicKey
            IN  /\ tx.feePayer = payer.bytes
                /\ tx.instruction.fromPubkey = payer.bytes
                /\ tx.instruction.toPubkey = owner.bytes
                /\ tx.instruction.lamports % (LAMPORTS_PER_SOL \div 1000000) = 0
                /\ tx.instruction.lamports \div (LAMPORTS_PER_SOL \div 1000000)
                     = blink.fee.micro

\* a transaction that pays the owner of My C one SOL
C16_Witness ==
    \E s \in Slots :
        /\ Built(s)
        /\ req[s].data[1].channelName = NameMyC
        /\ req[s].reply[1].transaction.instruction.lamports = LAMPORTS_PER_SOL

\* the handler of s has the answer of getBalance
HasBalance(s) == s \in Pays /\ req[s].balance >= 0

C18_LedgerFailureIsServerError ==
    \A s \in Pays :
        (Done(s) /\ req[s].error \in {ErrCheckingBalance, LedgerMessage}) =>
            /\ req[s].status >= 500
            /\ req[s].reply = <<>>

\* C19: the blockhash bound to a returned transaction is the ledger's latest
\* blockhash at the time the call fetches it, never one an earlier call got.
C19_FreshBlockhash ==
    [][ \A s \in Pays :
          (req[s].pc = "blockhash" /\ req'[s].status = 200) =>
              req'[s].reply[1].transaction.recentBlockhash = blockhash ]_vars

\* two calls between which the blockhash changed answer different ones
C19_Witness ==
    \E s \in Slots, t \in Slots :
        /\ Built(s)
        /\ Built(t)
        /\ req[s].reply[1].transaction.recentBlockhash
             # req[t].reply[1].transaction.recentBlockhash


----------------------------------------------------------------------------
(* Error messages *)

\* the messages the handlers and errorHandler write as literals
CallerMessages ==
    { ErrName, ErrDescription, ErrFee, ErrKeyRequired, ErrCoverImage,
      ErrTelegram, ErrKeyFormat, ErrDuplicate, ErrSaving, ErrInternal,
      ErrNotFound, ErrAccountRequired, ErrAccount, ErrInsufficient,
      ErrCheckingBalance }

\* C21: every error response carries one of the fixed caller-facing
\* messages, never the message of an internal exception.
C21_OnlyFixedMessages ==
    \A s \in Slots :
        (Done(s) /\ req[s].status >= 400) => req[s].error \in CallerMessages


----------------------------------------------------------------------------
(* Metadata *)

\* the cover image the record of a registration is to hold
CoverOf(b) == IF Truthy(b.coverImage) THEN b.coverImage ELSE DefaultCoverImage

\* C22: describe of a stored record answers its coverImage as icon, its
\* channelName as title and its description; a registration that sent no
\* cover image stores and gets back the default placeholder.
C22_DescribeMetadata ==
    /\ \A g \in Resolves :
          (Done(g) /\ req[g].status = 200) =>
              /\ req[g].reply[1].icon = req[g].data[1].coverImage
              /\ req[g].reply[1].title = req[g].data[1].channelName
              /\ req[g].reply[1].description = req[g].data[1].description
    /\ \A r \in Slots :
          Created(r) =>
              req[r].data[Len(req[r].data)].coverImage = CoverOf(req[r].body)
    /\ \A g \in Slots, r \in Slots :
          ResolvesRightAfter(g, r) => req[g].reply[1].icon = CoverOf(req[r].body)

\* a registration with an empty cover image, described with the placeholder
C22_Witness ==
    \E g \in Slots, r \in Slots :
        /\ ResolvesRightAfter(g, r)
        /\ req[r].body.coverImage = <<>>
        /\ req[g].reply[1].icon = DefaultCoverImage


----------------------------------------------------------------------------
(* Registration: fee type, status class, stored records *)

\* C23: a register request whose fee is not a number is answered with the
\* fee error, and no record of the store has a fee that is not a number.
C23_NonNumericFeeRejected ==
    /\ \A s \in Registers :
          (req[s].body.fee.kind # "number" /\ ReachesFeeCheck(req[s].body)) =>
              /\ Done(s)
              /\ req[s].status = 400
              /\ req[s].error = ErrFee
    /\ \A i \in DOMAIN file.blinks : file.blinks[i].fee.kind = "number"

\* C24: a register request rejected for its input or as a duplicate is
\* answered with a 4xx status, never with a 5xx status.
C24_RejectionIsClientError ==
    \A s \in Registers :
        (Done(s) /\ req[s].status # 201 /\ req[s].error # ErrSaving) =>
            (req[s].status >= 400 /\ req[s].status < 500)

\* the record satisfies every validator of the registration
RecordValid(blink) ==
    /\ blink.channelName # Absent
    /\ validateChannelName(blink.channelName)
    /\ blink.description # Absent
    /\ Len(Trim(blink.description)) >= DescMinLen
    /\ Len(Trim(blink.description)) <= DescMaxLen
    /\ blink.fee.kind = "number"
    /\ blink.fee.micro > 0
    /\ blink.fee.micro <= FeeMaxMicro
    /\ PublicKeyParses(blink.publicKey)
    /\ isValidUrl(blink.coverImage)
    /\ isValidTelegramLink(blink.telegramLink)

\* C27: every record of the store, in every reachable state, satisfies all
\* the validators of the registration.
C27_StoredRecordsValid ==
    \A i \in DOMAIN file.blinks : RecordValid(file.blinks[i])


----------------------------------------------------------------------------
(* The payer account *)

\* C26: buildPayment with an absent or malformed account is answered with
\* the 400 error of the account checks and no transaction, whether or not
\* the named channel is in the store.
C26_BadAccountRejected ==
    \A s \in Pays :
        (~Truthy(req[s].account) \/ ~PublicKeyParses(req[s].account)) =>
            /\ Done(s)
            /\ req[s].status = 400
            /\ req[s].error \in {ErrAccountRequired, ErrAccount}
            /\ req[s].reply = <<>>

\* a malformed account was rejected for a channel that is in the store, an
\* absent one for a channel that is not
C26_Witness ==
    \E s \in Pays, t \in Pays :
        /\ req[s].account = KeyBad
        /\ req[s].error = ErrAccount
        /\ HasRoute(readData(file), RouteOf(req[s].body.channelName))
        /\ req[t].account = Absent
        /\ req[t].error = ErrAccountRequired
        /\ ~HasRoute(readData(file), RouteOf(req[t].body.channelName))


----------------------------------------------------------------------------
(* Amounts and the read-only handlers *)

\* C25: the amount buildPayment compares with the balance and passes to the
\* transfer instruction is a whole number of lamports for every fee the
\* registration accepted.
C25_WholeLamports ==
    \A s \in Pays :
        HasBalance(s) => Lamports(req[s].data[1].fee).tenths = 0

\* the kinds of the requests that only read the store
Readers == {"resolve", "list", "pay"}

\* C28: no step of a describe, list or buildPayment request changes the
\* record store, whether the request succeeds or fails.
C28_ReadersDoNotWrite ==
    [][ \A s \in Slots :
          (req'[s] # req[s] /\ req'[s].kind \in Readers) => file' = file ]_vars

\* a describe failed and a payment was built while the store held a record
C28_Witness ==
    \E s \in Slots, t \in Slots :
        /\ Built(s)
        /\ t \in Resolves
        /\ Done(t)
        /\ req[t].status = 404
        /\ file = FileOk(<<SeedBlink>>)


----------------------------------------------------------------------------
(* The mobile client *)

\* the errors with which the server rejects a field
FieldErrors ==
    { ErrName, ErrDescription, ErrFee, ErrKeyRequired, ErrCoverImage,
      ErrTelegram, ErrKeyFormat }

\* C29: a form that validateForm accepts, with an owner address that parses
\* and a name not yet registered, is accepted by the register handler: the
\* server rejects none of its fields.
C29_ClientFormAccepted ==
    \A s \in client.sent :
        (Done(s) /\ PublicKeyParses(req[s].body.publicKey)) =>
            req[s].error \notin FieldErrors

\* C30: at most one request of the client is in flight, isLoading is false
\* again once a submission has finished, and the client goes to the Success
\* screen only on a response with a success status, with the channelName and
\* the route of that response.
C30_SubmitFlow ==
    [][ /\ Cardinality(client'.pending) <= 1
        /\ (client'.pending = {}) => ~client'.isLoading
        /\ (client.screen = "Form" /\ client'.screen = "Success") =>
              \E s \in client.pending :
                  /\ req[s].pc = "done"
                  /\ req[s].status >= 200
                  /\ req[s].status <= 299
                  /\ client'.params =
                       <<[channelName |-> req[s].reply[1].channelName,
                          route |-> req[s].reply[1].route]>> ]_vars

\* the client is on the Success screen of My C after a failed submission
C30_Witness ==
    /\ client.screen = "Success"
    /\ client.params = <<[channelName |-> NameMyC, route |-> RouteOf(NameMyC)]>>
    /\ client.alert = ErrTelegram
    /\ ~client.isLoading
    /\ Cardinality(client.sent) = 2

====
